---- MODULE Spec2Model ----
(***************************************************************************)
(* Model of game/loader.py: the .blend reader BlenderFile.                  *)
(*                                                                         *)
(* A file is a sequence of bytes (integers 0..255).  The handle is the     *)
(* pair (stream, pos).  Construction of a BlenderFile is the sequence of   *)
(* actions Open, ReadBlockHead, IndexNames .. IndexReturn, SkipPayload,    *)
(* LoopExit; each is a straight-line piece of __init__, _parse_blocks or   *)
(* _parse_index.  Python's bytes, slices, split and struct operations are  *)
(* operators that compute what the interpreter computes.                   *)
(***************************************************************************)
EXTENDS Integers, Sequences, FiniteSets, TLC

VARIABLES
    stream,            \* content of the file behind the handle
    pos,               \* position of the handle
    pc,                \* next piece of code to run
    self,              \* attributes of the object under construction
    end,               \* _parse_blocks: end
    blend_index,       \* _parse_blocks: blend_index (<<>> is None)
    end_found,         \* _parse_blocks: end_found
    file_block_heads,  \* _parse_blocks: file_block_heads
    file_block_head,   \* _parse_blocks: file_block_head (<<>> before the first)
    ix,                \* frame of the running _parse_index call
    outcome,           \* "running", "returned" or the exception raised
    result,            \* what the caller of BlenderFile(...) holds (<<>>: nothing)
    visited,           \* the block header records read so far, with their positions
    gen                \* how the file was made (never read by the loader)

vars == <<stream, pos, pc, self, end, blend_index, end_found, file_block_heads,
          file_block_head, ix, outcome, result, visited, gen>>

(***************************************************************************)
(* Bytes and the literal tags of the format                                *)
(***************************************************************************)
Min(a, b) == IF a < b THEN a ELSE b
Max(a, b) == IF a < b THEN b ELSE a

BLENDER == <<66, 76, 69, 78, 68, 69, 82>>
SDNANAME == <<83, 68, 78, 65, 78, 65, 77, 69>>
TYPE == <<84, 89, 80, 69>>
TLEN == <<84, 76, 69, 78>>
STRC == <<83, 84, 82, 67>>
DNA1 == <<68, 78, 65, 49>>
ENDB == <<69, 78, 68, 66>>

(***************************************************************************)
(* Python sequence operations                                              *)
(***************************************************************************)
\* s[a:b] for a bytes object: negative indices count from the end, both ends
\* are clamped to the object.
PyIndex(s, i) == IF i < 0 THEN Max(i + Len(s), 0) ELSE Min(i, Len(s))

PySlice(s, a, b) ==
    LET lo == PyIndex(s, a)
        hi == PyIndex(s, b)
    IN  IF lo < hi THEN SubSeq(s, lo + 1, hi) ELSE <<>>

\* s[a::]
PyFrom(s, a) == PySlice(s, a, Len(s))

\* the position (1-based) of the k-th zero byte of s; 0 for k = 0
NulAt(s, k) ==
    IF k = 0 THEN 0
    ELSE CHOOSE i \in 1..Len(s) :
             s[i] = 0 /\ Cardinality({j \in 1..i : s[j] = 0}) = k

\* s.split(b'\x00', maxsplit): the pieces between the zero bytes; at most
\* maxsplit splits are made (no limit when maxsplit is negative) and the rest
\* of s is the last piece.
Split(s, maxsplit) ==
    LET nuls == Cardinality({i \in 1..Len(s) : s[i] = 0})
        n == IF maxsplit < 0 THEN nuls ELSE Min(maxsplit, nuls)
    IN  [k \in 1..(n + 1) |->
            SubSeq(s, NulAt(s, k - 1) + 1, IF k <= n THEN NulAt(s, k) - 1 ELSE Len(s))]

\* l[:-1]
DropLast(l) == IF Len(l) = 0 THEN <<>> ELSE SubSeq(l, 1, Len(l) - 1)

\* sum((len(n) for n in l))
RECURSIVE SumLen(_)
SumLen(l) == IF l = <<>> THEN 0 ELSE Len(Head(l)) + SumLen(Tail(l))

\* handle.read(n) at position p of stream s: the bytes read.  read(-1) reads to
\* the end of the file; a smaller n is a ValueError (ReadRaises).
ReadRaises(n) == n < -1

Read(s, p, n) ==
    IF n < 0 THEN SubSeq(s, p + 1, Len(s))
    ELSE SubSeq(s, p + 1, Min(p + n, Len(s)))

(***************************************************************************)
(* struct: formats, sizes, unpacking                                       *)
(***************************************************************************)
\* A format is [order |-> "<" or ">", codes |-> sequence of field codes].
\* Standard sizes: with an explicit byte order struct adds no padding.
CodeSize(c) ==
    CASE c = "4s" -> 4
      [] c = "i" -> 4
      [] c = "I" -> 4
      [] c = "Q" -> 8
      [] c = "h" -> 2

RECURSIVE CalcSize(_)
CalcSize(codes) ==
    IF codes = <<>> THEN 0 ELSE CodeSize(Head(codes)) + CalcSize(Tail(codes))

Reverse(s) == [i \in 1..Len(s) |-> s[Len(s) + 1 - i]]

\* the bytes of one field, most significant first
BigEndian(order, b) == IF order = "<" THEN Reverse(b) ELSE b

\* two's complement value of a 2- or 4-byte field given most significant first
Signed(m) ==
    LET top == IF m[1] >= 128 THEN m[1] - 256 ELSE m[1]
    IN  IF Len(m) = 2 THEN top * 256 + m[2]
        ELSE top * 16777216 + m[2] * 65536 + m[3] * 256 + m[4]

\* The value of one field.  "4s" is the bytes themselves, "i" and "h" are signed
\* integers, "I" and "Q" (the address) are unsigned and kept as their base-256
\* digits, most significant first.
FieldValue(order, c, b) ==
    CASE c = "4s" -> b
      [] c \in {"i", "h"} -> Signed(BigEndian(order, b))
      [] c \in {"I", "Q"} -> BigEndian(order, b)

\* the fields of a record, each taken from its place in the bytes b
UnpackCodes(order, codes, b) ==
    [i \in 1..Len(codes) |->
        FieldValue(order, codes[i],
                   SubSeq(b, CalcSize(SubSeq(codes, 1, i - 1)) + 1,
                          CalcSize(SubSeq(codes, 1, i))))]

\* Struct.unpack(data) raises struct.error unless len(data) is the format's size
UnpackRaises(fmt, data) == Len(data) # CalcSize(fmt.codes)

Unpack(fmt, data) == UnpackCodes(fmt.order, fmt.codes, data)

\* Struct.unpack_from(data, offset): a negative offset counts from the end; it
\* raises struct.error when fewer than size bytes are left at the offset.
UnpackFromRaises(fmt, data, offset) ==
    LET off == IF offset < 0 THEN offset + Len(data) ELSE offset
    IN  off < 0 \/ Len(data) - off < CalcSize(fmt.codes)

UnpackFrom(fmt, data, offset) ==
    LET off == IF offset < 0 THEN offset + Len(data) ELSE offset
    IN  UnpackCodes(fmt.order, fmt.codes, SubSeq(data, off + 1, off + CalcSize(fmt.codes)))

\* Struct.iter_unpack(data) raises struct.error unless len(data) is a multiple
\* of the size; otherwise it yields one record per size bytes.
IterUnpackRaises(fmt, data) == Len(data) % CalcSize(fmt.codes) # 0

IterUnpack(fmt, data) ==
    LET n == CalcSize(fmt.codes)
    IN  [i \in 1..(Len(data) \div n) |->
            UnpackCodes(fmt.order, fmt.codes, SubSeq(data, (i - 1) * n + 1, i * n))]

(***************************************************************************)
(* BlenderFile: header                                                     *)
(***************************************************************************)
\* mutant: the pointer codes exchanged
ArchValueSwapped(arch) == IF arch = "X64" THEN "I" ELSE "Q"

\* Arch = Enum((X32, 'I'), (X64, 'Q')), Endian = Enum((Little, '<'), (Big, '>'))
ArchValue(arch) == IF arch = "X64" THEN "Q" ELSE "I"

EndianValue(endian) == IF endian = "Little" THEN "<" ELSE ">"

\* parse_header(header): <<>> is None, <<info>> a BlendFileInfo
parse_header(header) ==
    IF Len(header) # 12 \/ PySlice(header, 0, 7) # BLENDER THEN <<>>
    ELSE LET arch == PySlice(header, 7, 8)
             endian == PySlice(header, 8, 9)
             rest == PyFrom(header, 9)
             version == [i \in 1..Len(rest) |-> rest[i] - 48]
         IN  IF arch # <<45>> /\ arch # <<95>> THEN <<>>
             ELSE IF endian # <<118>> /\ endian # <<86>> THEN <<>>
             ELSE <<[version |-> [major |-> version[1], minor |-> version[2],
                                  rev |-> version[3]],
                     arch |-> IF arch = <<45>> THEN "X64" ELSE "X32",
                     endian |-> IF endian = <<118>> THEN "Little" ELSE "Big"]>>

\* _fmt_strct(fmt): the byte order of the file, then fmt with P replaced by the
\* pointer code of the file
fmt_strct(head, codes) ==
    [order |-> EndianValue(head.endian),
     codes |-> [i \in 1..Len(codes) |->
                   IF codes[i] = "P" THEN ArchValue(head.arch) ELSE codes[i]]]

\* the structs _parse_index and _parse_blocks build
IntStruct(head) == fmt_strct(head, <<"i">>)

Short(head) == fmt_strct(head, <<"h">>)

StructField(head) == fmt_strct(head, <<"h", "h">>)

BlendBlockHeader(head) == fmt_strct(head, <<"4s", "i", "P", "i", "i">>)

\* the namedtuple of a block header
BlockHead(v) == [code |-> v[1], size |-> v[2], addr |-> v[3], sdna |-> v[4], count |-> v[5]]

(***************************************************************************)
(* BlenderFile._parse_index                                                *)
(***************************************************************************)
\* mutant: the four bytes are there, and are not compared
HasTagUncompared(data, offset, tag) == Len(PySlice(data, offset, offset + 4)) = Len(tag)

\* data[offset:offset+4] == tag
HasTag(data, offset, tag) == PySlice(data, offset, offset + 4) = tag

\* mutant: an aligned offset is moved too
alignAlways(offset) == offset + (4 - (offset % 4))

\* align(): the offset moved up to the next multiple of 4
align(offset) ==
    LET tmp == offset % 4
    IN  offset + (IF tmp = 0 THEN 0 ELSE 4 - tmp)

NoFrame == [data_offset |-> 0, data |-> <<>>, offset |-> 0, names |-> <<>>,
            type_count |-> 0, type_names |-> <<>>, types |-> <<>>,
            structure_count |-> 0, structures |-> <<>>]

\* for _ in range(field_count): fields.append(StructField.unpack_from(data, offset));
\* offset += 4.  It raises when one of the fields does not lie in data.
FieldsRaise(head, data, offset, field_count) ==
    \E i \in 1..field_count :
        UnpackFromRaises(StructField(head), data, offset + 4 * (i - 1))

Fields(head, data, offset, field_count) ==
    [i \in 1..field_count |->
        [type |-> UnpackFrom(StructField(head), data, offset + 4 * (i - 1))[1],
         name |-> UnpackFrom(StructField(head), data, offset + 4 * (i - 1))[2]]]

\* type_data_length = Short.format.size * type_count.  Python's integers are
\* unbounded; the count is kept within 2^29 either way, far beyond the length of
\* any data, where the slices and offsets made from the product are the same.
TypeDataLength(head, type_count) ==
    CalcSize(Short(head).codes) * Max(Min(type_count, 2 ^ 29), -(2 ^ 29))

\* tuple(zip(type_names, type_sizes))
Zip(type_names, type_sizes) ==
    [i \in 1..Min(Len(type_names), Len(type_sizes)) |->
        <<type_names[i], type_sizes[i][1]>>]

(***************************************************************************)
(* Exceptions and the end of the construction                              *)
(***************************************************************************)
BadFileHeader == [exc |-> "BlenderFileImportException", message |-> "Bad file header"]

MalformedIndex == [exc |-> "BlenderFileImportException", message |-> "Malformed index"]

MissingIndex ==
    [exc |-> "BlenderFileImportException", message |-> "Could not find blend file index"]

MissingTerminator ==
    [exc |-> "BlenderFileImportException", message |-> "End of the blend file was not found"]

StructError == [exc |-> "struct.error", message |-> ""]

ValueError == [exc |-> "ValueError", message |-> "read length must be non-negative or -1"]

Running == [exc |-> "", message |-> "running"]

Returned == [exc |-> "", message |-> "returned"]

\* an exception leaves __init__: the caller gets no object
Raise(e, p) ==
    /\ outcome' = e
    /\ pc' = "done"
    /\ pos' = p
    /\ result' = <<>>
    /\ ix' = NoFrame
    /\ UNCHANGED <<stream, self, end, blend_index, end_found, file_block_heads,
                   file_block_head, visited, gen>>

(***************************************************************************)
(* Actions                                                                 *)
(***************************************************************************)
\* __init__ up to the call of _parse_blocks, and _parse_blocks up to its loop
Open ==
    /\ pc = "init"
    /\ \E buf \in {Read(stream, 0, 12)} :
       \E header \in {parse_header(buf)} :
           IF header = <<>> THEN Raise(BadFileHeader, Len(buf))
           ELSE /\ self' = [header |-> header]
                /\ end' = Len(stream)
                /\ pos' = 12
                /\ pc' = "loop"
                /\ UNCHANGED <<stream, blend_index, end_found, file_block_heads,
                               file_block_head, ix, outcome, result, visited, gen>>

\* mutant: the entry is put in front
AppendedFirst(heads, h, p) == <<<<h, p>>>> \o heads

\* file_block_heads.append((file_block_head, handle.seek(0, 1)))
Appended(heads, h, p) == Append(heads, <<h, p>>)

\* one pass of the loop of _parse_blocks up to the dispatch on the block's code
\* (\E x \in {e} names the value of e)
ReadBlockHead ==
    /\ pc = "loop"
    /\ end # pos /\ ~end_found
    /\ \E fmt \in {BlendBlockHeader(self.header[1])} :
       \E buf \in {Read(stream, pos, CalcSize(fmt.codes))} :
       \E p \in {pos + Len(buf)} :
           IF UnpackRaises(fmt, buf) THEN Raise(StructError, p)
           ELSE \E v \in {Unpack(fmt, buf)} :
                \E h \in {BlockHead(v)} :
                    /\ file_block_head' = <<h>>
                    /\ pos' = p
                    /\ visited' = Append(visited, [at |-> pos, head |-> h])
                    /\ IF h.code = DNA1
                       THEN /\ pc' = "index"
                            /\ ix' = [NoFrame EXCEPT !.data_offset = p]
                            /\ UNCHANGED <<end_found, file_block_heads>>
                       ELSE IF h.code = ENDB
                       THEN /\ pc' = "skip"
                            /\ end_found' = TRUE
                            /\ UNCHANGED <<ix, file_block_heads>>
                       ELSE /\ pc' = "skip"
                            /\ file_block_heads' = Appended(file_block_heads, h, p)
                            /\ UNCHANGED <<ix, end_found>>
                    /\ UNCHANGED <<stream, self, end, blend_index, outcome, result, gen>>

\* _parse_index: the data of the block and the names
IndexNames ==
    /\ pc = "index"
    /\ \E head \in {file_block_head[1]} :
       \E Hd \in {self.header[1]} :
           IF ReadRaises(head.size) THEN Raise(ValueError, pos)
           ELSE \E data \in {Read(stream, pos, head.size)} :
                \E p \in {pos + Len(data)} :
                \E offset \in {8} :
                    IF PySlice(data, 0, 8) # SDNANAME THEN Raise(MalformedIndex, p)
                    ELSE IF UnpackFromRaises(IntStruct(Hd), data, offset)
                    THEN Raise(StructError, p)
                    ELSE \E name_count \in {UnpackFrom(IntStruct(Hd), data, offset)[1]} :
                         \E rest \in {PyFrom(data, offset + 4)} :
                         \E names \in {DropLast(Split(rest, name_count))} :
                             /\ ix' = [ix EXCEPT !.data = data, !.offset = offset,
                                                 !.names = names]
                             /\ pos' = p
                             /\ pc' = "index_types"
                             /\ UNCHANGED <<stream, self, end, blend_index, end_found,
                                            file_block_heads, file_block_head, outcome,
                                            result, visited, gen>>

\* _parse_index: the names of the types
IndexTypes ==
    /\ pc = "index_types"
    /\ \E Hd \in {self.header[1]} :
       \E data \in {ix.data} :
       \E offset \in {align(ix.offset + SumLen(ix.names) + Len(ix.names) + 4)} :
           IF ~HasTag(data, offset, TYPE) THEN Raise(MalformedIndex, pos)
           ELSE IF UnpackFromRaises(IntStruct(Hd), data, offset + 4)
           THEN Raise(StructError, pos)
           ELSE \E type_count \in {UnpackFrom(IntStruct(Hd), data, offset + 4)[1]} :
                \E rest \in {PyFrom(data, offset + 8)} :
                \E type_names \in {DropLast(Split(rest, type_count))} :
                    /\ ix' = [ix EXCEPT !.offset = offset, !.type_count = type_count,
                                        !.type_names = type_names]
                    /\ pc' = "index_lengths"
                    /\ UNCHANGED <<stream, pos, self, end, blend_index, end_found,
                                   file_block_heads, file_block_head, outcome, result,
                                   visited, gen>>

\* _parse_index: the lengths of the types
IndexLengths ==
    /\ pc = "index_lengths"
    /\ \E Hd \in {self.header[1]} :
       \E data \in {ix.data} :
       \E offset \in {align(ix.offset + SumLen(ix.type_names) + Len(ix.type_names) + 8)} :
       \E type_data_length \in {TypeDataLength(Hd, ix.type_count)} :
       \E sizes \in {PySlice(data, offset + 4, offset + 4 + type_data_length)} :
           IF ~HasTag(data, offset, TLEN) THEN Raise(MalformedIndex, pos)
           ELSE IF IterUnpackRaises(Short(Hd), sizes) THEN Raise(StructError, pos)
           ELSE \E type_sizes \in {IterUnpack(Short(Hd), sizes)} :
                    /\ ix' = [ix EXCEPT !.offset = offset + 4,
                                        !.types = Zip(ix.type_names, type_sizes)]
                    /\ pc' = "index_structures"
                    /\ UNCHANGED <<stream, pos, self, end, blend_index, end_found,
                                   file_block_heads, file_block_head, outcome, result,
                                   visited, gen>>

\* _parse_index: the STRC tag and the number of structures
IndexStructures ==
    /\ pc = "index_structures"
    /\ \E Hd \in {self.header[1]} :
       \E data \in {ix.data} :
       \E type_data_length \in {TypeDataLength(Hd, ix.type_count)} :
       \E offset \in {align(ix.offset + type_data_length)} :
           IF ~HasTag(data, offset, STRC) THEN Raise(MalformedIndex, pos)
           ELSE IF UnpackFromRaises(IntStruct(Hd), data, offset + 8 - 4)
           THEN Raise(StructError, pos)
           ELSE \E structure_count \in {UnpackFrom(IntStruct(Hd), data, offset + 8 - 4)[1]} :
                    /\ ix' = [ix EXCEPT !.offset = offset + 8,
                                        !.structure_count = structure_count,
                                        !.structures = <<>>]
                    /\ pc' = "index_structure"
                    /\ UNCHANGED <<stream, pos, self, end, blend_index, end_found,
                                   file_block_heads, file_block_head, outcome,
                                   result, visited, gen>>

\* _parse_index: one pass of for _ in range(structure_count), with the number
\* of passes still to make in ix.structure_count
IndexStructure ==
    /\ pc = "index_structure"
    /\ ix.structure_count > 0
    /\ \E Hd \in {self.header[1]} :
       \E data \in {ix.data} :
       \E offset \in {ix.offset} :
           IF UnpackFromRaises(Short(Hd), data, offset)
              \/ UnpackFromRaises(Short(Hd), data, offset + 2)
           THEN Raise(StructError, pos)
           ELSE \E struct_type_index \in {UnpackFrom(Short(Hd), data, offset)[1]} :
                \E field_count \in {UnpackFrom(Short(Hd), data, offset + 2)[1]} :
                    IF FieldsRaise(Hd, data, offset + 4, field_count)
                    THEN Raise(StructError, pos)
                    ELSE \E fields \in {Fields(Hd, data, offset + 4, field_count)} :
                         /\ ix' = [ix EXCEPT
                                      !.offset = offset + 4 + 4 * Max(field_count, 0),
                                      !.structure_count = ix.structure_count - 1,
                                      !.structures =
                                          Append(ix.structures,
                                                 [name |-> struct_type_index,
                                                  fields |-> fields])]
                         /\ UNCHANGED <<stream, pos, pc, self, end, blend_index,
                                        end_found, file_block_heads, file_block_head,
                                        outcome, result, visited, gen>>

\* mutant: no rewind
RewindNot(data_offset, p) == p

\* mutant: a rewind to the start of the file
RewindToStart(data_offset, p) == 0

\* handle.seek(data_offset, 0) with the handle at position p: the new position
Rewind(data_offset, p) == data_offset

\* _parse_index: the rewind and the return into _parse_blocks
IndexReturn ==
    /\ pc = "index_structure"
    /\ ix.structure_count <= 0
    /\ pos' = Rewind(ix.data_offset, pos)
    /\ blend_index' = <<[names |-> ix.names, types |-> ix.types,
                         structures |-> ix.structures]>>
    /\ ix' = NoFrame
    /\ pc' = "skip"
    /\ UNCHANGED <<stream, self, end, end_found, file_block_heads, file_block_head,
                   outcome, result, visited, gen>>

\* handle.read(file_block_head.size), the last statement of the loop
SkipPayload ==
    /\ pc = "skip"
    /\ \E size \in {file_block_head[1].size} :
           IF ReadRaises(size) THEN Raise(ValueError, pos)
           ELSE /\ pos' = pos + Len(Read(stream, pos, size))
                /\ pc' = "loop"
                /\ UNCHANGED <<stream, self, end, blend_index, end_found,
                               file_block_heads, file_block_head, ix, outcome, result,
                               visited, gen>>

\* mutant: the two checks in the other order
ExitVerdictSwapped(index, found) ==
    IF found = FALSE THEN MissingTerminator
    ELSE IF index = <<>> THEN MissingIndex
    ELSE Returned

\* the two checks after the loop
ExitVerdict(index, found) ==
    IF index = <<>> THEN MissingIndex
    ELSE IF found = FALSE THEN MissingTerminator
    ELSE Returned

\* the loop ends: the two checks of _parse_blocks, then the end of __init__
LoopExit ==
    /\ pc = "loop"
    /\ ~(end # pos /\ ~end_found)
    /\ \E verdict \in {ExitVerdict(blend_index, end_found)} :
       IF verdict # Returned THEN Raise(verdict, pos)
       ELSE /\ self' = [header |-> self.header, blocks |-> file_block_heads,
                        index |-> blend_index[1]]
            /\ result' = <<self'>>
            /\ outcome' = Returned
            /\ pc' = "done"
            /\ UNCHANGED <<stream, pos, end, blend_index, end_found, file_block_heads,
                           file_block_head, ix, visited, gen>>

Next ==
    \/ Open
    \/ ReadBlockHead
    \/ IndexNames
    \/ IndexTypes
    \/ IndexLengths
    \/ IndexStructures
    \/ IndexStructure
    \/ IndexReturn
    \/ SkipPayload
    \/ LoopExit

(***************************************************************************)
(* The files the loader is run on.  A file is written from a description   *)
(* (gen): a 12-byte header, then blocks, each a header record followed by  *)
(* its payload; the payload of a DNA1 block is an index written in the     *)
(* SDNA/NAME/TYPE/TLEN/STRC grammar.  The description stays in gen so that *)
(* what the loader returns can be compared with what was written.          *)
(***************************************************************************)
MaxNames == 2
MaxTypes == 2
MaxStructs == 2
MaxBlocks == 4

SeqsUpTo(S, n) == UNION {[1..k -> S] : k \in 0..n}

RECURSIVE Concat(_)
Concat(l) == IF l = <<>> THEN <<>> ELSE Head(l) \o Concat(Tail(l))

\* struct.pack of one integer in n bytes, two's complement
PackInt(order, v, n) ==
    LET le == [k \in 1..n |-> (v \div (256 ^ (k - 1))) % 256]
    IN  IF order = "<" THEN le ELSE Reverse(le)

\* the digits of an unsigned field, most significant first, in the file's order
PackDigits(order, d) == IF order = "<" THEN Reverse(d) ELSE d

Pad(d) == d \o [i \in 1..((4 - (Len(d) % 4)) % 4) |-> 0]

NulTerminated(l) == Concat([i \in 1..Len(l) |-> l[i] \o <<0>>])

Tags == [sdna |-> <<83, 68, 78, 65>>, name |-> <<78, 65, 77, 69>>, type |-> TYPE,
         tlen |-> TLEN, strc |-> STRC]

\* an index: names, types as <<name, size>>, structures as [name, fields]
EncodeStructure(order, st) ==
    PackInt(order, st.name, 2) \o PackInt(order, Len(st.fields), 2)
    \o Concat([i \in 1..Len(st.fields) |->
                  PackInt(order, st.fields[i].type, 2)
                  \o PackInt(order, st.fields[i].name, 2)])

\* counts: the three counts written (those of the index unless tampered with)
EncodeIndexWith(order, index, tags, counts) ==
    LET a == tags.sdna \o tags.name \o PackInt(order, counts.names, 4)
             \o NulTerminated(index.names)
        b == Pad(a) \o tags.type \o PackInt(order, counts.types, 4)
             \o NulTerminated([i \in 1..Len(index.types) |-> index.types[i][1]])
        c == Pad(b) \o tags.tlen
             \o Concat([i \in 1..Len(index.types) |->
                           PackInt(order, index.types[i][2], 2)])
    IN  Pad(c) \o tags.strc \o PackInt(order, counts.structures, 4)
        \o Concat([i \in 1..Len(index.structures) |->
                      EncodeStructure(order, index.structures[i])])

EncodeIndex(order, index, tags) ==
    EncodeIndexWith(order, index, tags,
                    [names |-> Len(index.names), types |-> Len(index.types),
                     structures |-> Len(index.structures)])

\* a block: [head |-> block header, payload |-> bytes]
EncodeBlock(order, b) ==
    b.head.code \o PackInt(order, b.head.size, 4) \o PackDigits(order, b.head.addr)
    \o PackInt(order, b.head.sdna, 4) \o PackInt(order, b.head.count, 4) \o b.payload

EncodeFile(hdr, order, blocks) ==
    hdr \o Concat([i \in 1..Len(blocks) |-> EncodeBlock(order, blocks[i])])

\* sample values
NameSamples == {<<>>, <<111, 98>>}

TypeSamples == {<<<<105, 110, 116>>, 4>>, <<<<99>>, -255>>}

StructSamples ==
    {[name |-> 0, fields |-> <<[type |-> 0, name |-> 0]>>],
     [name |-> 1, fields |-> <<[type |-> 1, name |-> 0], [type |-> 0, name |-> 1]>>]}

Indexes ==
    {[names |-> n, types |-> t, structures |-> st] :
        n \in SeqsUpTo(NameSamples, MaxNames), t \in SeqsUpTo(TypeSamples, MaxTypes),
        st \in SeqsUpTo(StructSamples, MaxStructs)}

\* the index of the spec's scenario 3
Index3 ==
    [names |-> <<<<111, 98>>>>, types |-> <<<<<<105, 110, 116>>, 4>>>>,
     structures |-> <<[name |-> 0, fields |-> <<[type |-> 0, name |-> 0]>>]>>]

\* the address digits of a block, as wide as the file's pointers
Addr(ptr) == IF ptr = "Q" THEN <<1, 2, 3, 4, 5, 6, 7, 200>> ELSE <<1, 2, 3, 200>>

Block(ptr, code, size, payload) ==
    [head |-> [code |-> code, size |-> size, addr |-> Addr(ptr), sdna |-> 258,
               count |-> -2],
     payload |-> payload]

IndexBlock(order, ptr, index, tags) ==
    LET d == EncodeIndex(order, index, tags)
    IN  Block(ptr, DNA1, Len(d), d)

EndBlock(ptr) == Block(ptr, ENDB, 0, <<>>)

BlockSamples(order, ptr) ==
    {Block(ptr, <<68, 65, 84, 65>>, 3, <<97, 0, 99>>),
     Block(ptr, <<82, 69, 78, 68>>, 0, <<>>),
     IndexBlock(order, ptr, Index3, Tags),
     EndBlock(ptr)}

\* the two bytes of the header that fix the layout, and what they mean
Layouts ==
    {[arch |-> 45, endian |-> 118, ptr |-> "Q", order |-> "<"],
     [arch |-> 45, endian |-> 86, ptr |-> "Q", order |-> ">"],
     [arch |-> 95, endian |-> 118, ptr |-> "I", order |-> "<"],
     [arch |-> 95, endian |-> 86, ptr |-> "I", order |-> ">"]}

HeaderOf(l) == BLENDER \o <<l.arch, l.endian, 50, 56, 48>>

\* no cut: the whole file
NoCut == <<>>

\* what is kept of a block: its header and the length of its payload
Written(blocks) ==
    [i \in 1..Len(blocks) |-> [head |-> blocks[i].head, plen |-> Len(blocks[i].payload)]]

Gen(family, hdr, l, blocks, index, corrupt, cut) ==
    LET whole == EncodeFile(hdr, l.order, blocks)
    IN  [stream |-> IF cut = NoCut THEN whole ELSE SubSeq(whole, 1, cut[1]),
         gen |-> [family |-> family, ptr |-> l.ptr, order |-> l.order,
                  blocks |-> Written(blocks), index |-> index, corrupt |-> corrupt,
                  cut |-> cut]]


\* headers of every kind, before an index block and a terminator
HeaderFiles ==
    {Gen("header", magic \o <<a, e, d1, d2, d3>>,
         [ptr |-> IF a = 95 THEN "I" ELSE "Q", order |-> IF e = 86 THEN ">" ELSE "<"],
         <<IndexBlock(IF e = 86 THEN ">" ELSE "<", IF a = 95 THEN "I" ELSE "Q",
                      Index3, Tags),
           EndBlock(IF a = 95 THEN "I" ELSE "Q")>>,
         Index3, "", NoCut) :
        magic \in {BLENDER, <<66, 76, 69, 78, 68, 69, 88>>},
        a \in {45, 95, 43}, e \in {118, 86, 119},
        d1 \in {50, 58}, d2 \in {48, 55, 56, 47}, d3 \in {48, 57, 97}}

\* sequences of blocks of every kind
BlockFiles ==
    UNION {{Gen("blocks", HeaderOf(l), l, bs, Index3, "", NoCut) :
               bs \in SeqsUpTo(BlockSamples(l.order, l.ptr), MaxBlocks)} :
           l \in Layouts}

DataBlock(ptr) == Block(ptr, <<68, 65, 84, 65>>, 3, <<97, 0, 99>>)

\* the layouts the index families are written in
TwoLayouts == {x \in Layouts : (x.ptr = "Q") = (x.order = "<")}

\* an index of every shape, between a data block and the terminator
IndexFiles ==
    {Gen("index", HeaderOf(l), l,
         <<DataBlock(l.ptr), IndexBlock(l.order, l.ptr, index, Tags), EndBlock(l.ptr)>>,
         index, "", NoCut) :
        l \in TwoLayouts, index \in Indexes}

\* an index one of whose tags was overwritten
Garbled(tag) == [Tags EXCEPT ![tag] = <<88, 88, 88, 88>>]

CorruptFiles ==
    {Gen("corrupt", HeaderOf(l), l,
         <<DataBlock(l.ptr), IndexBlock(l.order, l.ptr, index, Garbled(tag)),
           EndBlock(l.ptr)>>,
         index, tag, NoCut) :
        l \in TwoLayouts,
        index \in {x \in Indexes : Len(x.structures) = 1 /\ x.structures[1].name = 0},
        tag \in {"sdna", "name", "type", "tlen", "strc"}}

\* the file of the spec's scenario 3, cut after any number of bytes
Scenario3(l) ==
    <<DataBlock(l.ptr), IndexBlock(l.order, l.ptr, Index3, Tags), EndBlock(l.ptr)>>

CutFiles ==
    UNION {{Gen("cut", HeaderOf(l), l, Scenario3(l), Index3, "", <<cut>>) :
               cut \in 0..Len(EncodeFile(HeaderOf(l), l.order, Scenario3(l)))} :
           l \in TwoLayouts}

\* scenario 3 with the declared size of a block changed, or bytes added after
\* the index inside its block
SizeFiles ==
    {Gen("sizes", HeaderOf(l), l,
         <<Block(l.ptr, <<68, 65, 84, 65>>, ds, <<97, 0, 99>>),
           Block(l.ptr, DNA1,
                 IF is < 0 THEN is ELSE Len(EncodeIndex(l.order, Index3, Tags)) + is,
                 EncodeIndex(l.order, Index3, Tags)
                 \o [i \in 1..(IF is < 0 THEN 0 ELSE is) |-> 9]),
           Block(l.ptr, ENDB, es, [i \in 1..(IF es < 0 THEN 1 ELSE es) |-> 7]),
           DataBlock(l.ptr)>>,
         Index3, "", NoCut) :
        l \in TwoLayouts, ds \in {-5, -1, 3}, is \in {-5, -1, 0, 3}, es \in {-5, -1, 0, 2}}

\* scenario 3 with the counts of the index changed
CountFiles ==
    {Gen("counts", HeaderOf(l), l,
         <<Block(l.ptr, DNA1, Len(EncodeIndex(l.order, Index3, Tags)),
                 EncodeIndexWith(l.order, Index3, Tags,
                                 [names |-> n, types |-> t, structures |-> st])),
           EndBlock(l.ptr)>>,
         Index3, "", NoCut) :
        l \in TwoLayouts, n \in {-1, 0, 1, 2}, t \in {-30, -1, 0, 1, 2},
        st \in {-1, 0, 1, 2}}

Files ==
    HeaderFiles \cup BlockFiles \cup IndexFiles \cup CorruptFiles \cup CutFiles
    \cup SizeFiles \cup CountFiles

\* the state after open(path, 'rb'), the file being one of files
InitOn(files) ==
    /\ \E f \in files : stream = f.stream /\ gen = f.gen
    /\ pos = 0
    /\ pc = "init"
    /\ self = [header |-> <<>>]
    /\ end = 0
    /\ blend_index = <<>>
    /\ end_found = FALSE
    /\ file_block_heads = <<>>
    /\ file_block_head = <<>>
    /\ ix = NoFrame
    /\ outcome = Running
    /\ result = <<>>
    /\ visited = <<>>

Init == InitOn(Files)

Spec == Init /\ [][Next]_vars

\* the files that differ in their blocks: the sequences of blocks, the cut
\* files, the files with changed sizes or counts and those with a garbled tag
ScanFiles == BlockFiles \cup CutFiles \cup SizeFiles \cup CountFiles \cup CorruptFiles

\* the interpreter runs the construction to its end
FairSpec == InitOn(ScanFiles) /\ [][Next]_vars /\ WF_vars(Next)

(***************************************************************************)
(* What was written, as the claims speak of it                             *)
(***************************************************************************)
\* size of a block header record: 20 bytes with 32-bit pointers, 24 with 64-bit
HeaderRecordSize == IF gen.ptr = "I" THEN 20 ELSE 24

\* the indices of the blocks written before the first ENDB block
RECURSIVE BeforeTerminator(_, _)
BeforeTerminator(bs, k) ==
    IF k > Len(bs) \/ bs[k].head.code = ENDB THEN <<>>
    ELSE <<k>> \o BeforeTerminator(bs, k + 1)

IsDataBlock(k) == gen.blocks[k].head.code # DNA1 /\ gen.blocks[k].head.code # ENDB

IsIndexBlock(k) == gen.blocks[k].head.code = DNA1

\* the indices of the blocks a directory has to list, in the order written
Listed == SelectSeq(BeforeTerminator(gen.blocks, 1), IsDataBlock)

\* where the payload of the k-th block written starts
RECURSIVE PayloadOffset(_)
PayloadOffset(k) ==
    IF k = 1 THEN 12 + HeaderRecordSize
    ELSE PayloadOffset(k - 1) + gen.blocks[k - 1].head.size + HeaderRecordSize

Last(l) == l[Len(l)]

(***************************************************************************)
(* Claims                                                                  *)
(***************************************************************************)
\* C1: when _parse_blocks succeeds, the directory holds no DNA1 and no ENDB
\* entry, and holds the headers of all other blocks written before the
\* terminator, each once, in the order they were written.
C1_DirectoryListsDataBlocks ==
    outcome = Returned =>
        /\ \A i \in 1..Len(result[1].blocks) :
               result[1].blocks[i][1].code \notin {DNA1, ENDB}
        /\ [i \in 1..Len(result[1].blocks) |-> result[1].blocks[i][1]]
               = [i \in 1..Len(Listed) |-> gen.blocks[Listed[i]].head]

C1_Witness ==
    /\ outcome = Returned
    /\ Len(result[1].blocks) = 2
    /\ result[1].blocks[1][1].code # result[1].blocks[2][1].code
    /\ gen.blocks[2].head.code = DNA1

\* the verdict on a file of whole blocks
WrittenVerdict ==
    LET before == BeforeTerminator(gen.blocks, 1)
    IN  IF SelectSeq(before, IsIndexBlock) = <<>> THEN MissingIndex
        ELSE IF Len(before) = Len(gen.blocks) THEN MissingTerminator
        ELSE Returned

\* C2: when the scan stops, it fails with 'Could not find blend file index' if no
\* DNA1 block was decoded, with 'End of the blend file was not found' if one was
\* decoded and the end of the file was reached without ENDB, and returns only
\* when a DNA1 block was decoded and ENDB was seen.
C2_ScanVerdict ==
    /\ (pc = "done" /\ gen.family = "blocks") => outcome = WrittenVerdict
    /\ outcome = Returned => blend_index # <<>> /\ end_found
    /\ outcome = MissingTerminator => blend_index # <<>> /\ ~end_found /\ pos = end
    /\ outcome = MissingIndex => blend_index = <<>> /\ (end_found \/ pos = end)

C2_Witness ==
    /\ gen.family = "blocks"
    /\ outcome = MissingTerminator
    /\ Len(visited) = 3
    /\ visited[1].head.code = DNA1

\* C3: after a DNA1 block whose payload starts at p and whose header declares
\* size s, the next block header is read at p + s, and the handle is there (or
\* at the end of a shorter file) when the loop tests its condition.
C3_ResumeAfterIndex ==
    /\ \A i \in 1..(Len(visited) - 1) :
           visited[i].head.code = DNA1 =>
               visited[i + 1].at
                   = visited[i].at + HeaderRecordSize + visited[i].head.size
    /\ (pc = "loop" /\ visited # <<>> /\ Last(visited).head.code = DNA1
            /\ Last(visited).head.size >= 0) =>
           pos = Min(Last(visited).at + HeaderRecordSize + Last(visited).head.size, end)

C3_Witness ==
    /\ gen.family = "sizes"
    /\ Len(visited) = 3
    /\ visited[2].head.code = DNA1
    /\ visited[2].head.size > Len(EncodeIndex(gen.order, Index3, Tags))

\* C4: the construction succeeds or fails with one of the four named kinds (Bad
\* file header, Malformed index, Could not find blend file index, End of the
\* blend file was not found), and on failure the caller holds nothing.
C4_FailsWithNamedKind ==
    pc = "done" =>
        \/ outcome = Returned /\ result # <<>>
        \/ /\ outcome \in {BadFileHeader, MalformedIndex, MissingIndex, MissingTerminator}
           /\ result = <<>>

\* the first 12 bytes of the file
HeaderBytes == SubSeq(stream, 1, Min(12, Len(stream)))

\* C5: parse_header accepts exactly the 12-byte strings that start with BLENDER,
\* then '-' or '_', then 'v' or 'V'; it returns 64-bit for '-', 32-bit for '_',
\* little for 'v', big for 'V', and the version (byte9-48, byte10-48, byte11-48),
\* each component a decimal digit 0..9; anything else is a bad file header.
C5_HeaderContract ==
    pc # "init" =>
        LET h == HeaderBytes
            accepted == /\ Len(h) = 12
                        /\ SubSeq(h, 1, 7) = BLENDER
                        /\ h[8] \in {45, 95}
                        /\ h[9] \in {118, 86}
        IN  /\ accepted <=> self.header # <<>>
            /\ ~accepted <=> outcome = BadFileHeader
            /\ accepted =>
                   /\ self.header[1].arch = (IF h[8] = 45 THEN "X64" ELSE "X32")
                   /\ self.header[1].endian = (IF h[9] = 118 THEN "Little" ELSE "Big")
                   /\ self.header[1].version
                          = [major |-> h[10] - 48, minor |-> h[11] - 48, rev |-> h[12] - 48]
                   /\ self.header[1].version.major \in 0..9
                   /\ self.header[1].version.minor \in 0..9
                   /\ self.header[1].version.rev \in 0..9

\* C6: an index written in the SDNANAME/TYPE/TLEN/STRC grammar, in either byte
\* order, is decoded to the names, (type name, size) pairs and structures that
\* were written, in the same order.
C6_IndexRoundTrip ==
    gen.family = "index" =>
        /\ blend_index # <<>> => blend_index[1] = gen.index
        /\ pc = "done" => outcome = Returned /\ result[1].index = gen.index

C6_Witness ==
    /\ gen.family = "index"
    /\ gen.order = ">"
    /\ outcome = Returned
    /\ Len(result[1].index.names) = MaxNames
    /\ Len(result[1].index.types) = MaxTypes
    /\ Len(result[1].index.structures) = MaxStructs
    /\ result[1].index.types[1][2] < 0
    /\ result[1].index.names[1] = <<>>

\* C7: in every index _parse_index returns, every structure's type index and
\* every field's type index is in 0..len(types)-1 and every field's name index
\* is in 0..len(names)-1.
C7_NoDanglingIndices ==
    blend_index # <<>> =>
        LET index == blend_index[1]
        IN  \A i \in 1..Len(index.structures) :
                /\ index.structures[i].name \in 0..(Len(index.types) - 1)
                /\ \A j \in 1..Len(index.structures[i].fields) :
                       /\ index.structures[i].fields[j].type \in 0..(Len(index.types) - 1)
                       /\ index.structures[i].fields[j].name \in 0..(Len(index.names) - 1)

\* the stages of _parse_index that lie behind the check of a tag
Behind(tag) ==
    CASE tag \in {"sdna", "name"} ->
             {"index_types", "index_lengths", "index_structures", "index_structure"}
      [] tag = "type" -> {"index_lengths", "index_structures", "index_structure"}
      [] tag = "tlen" -> {"index_structures", "index_structure"}
      [] tag = "strc" -> {"index_structure"}
      [] OTHER -> {}

\* C8: when one of the tags SDNANAME, TYPE, TLEN, STRC of a DNA1 payload does not
\* match, _parse_index fails with 'Malformed index' at that tag, the scan reads
\* no further block, and neither an index nor a directory is returned.
C8_GarbledTagIsMalformedIndex ==
    gen.corrupt # "" =>
        /\ pc \notin Behind(gen.corrupt)
        /\ blend_index = <<>>
        /\ Len(visited) <= 2
        /\ pc = "done" => outcome = MalformedIndex /\ result = <<>>

C8_Witness ==
    /\ gen.corrupt = "tlen"
    /\ outcome = MalformedIndex
    /\ Len(file_block_heads) = 1
    /\ result = <<>>

\* C9: the offset of every directory entry is the position right after the
\* entry's header record: 12 + H + the sum of (H + payloadSize) over the blocks
\* written before it, with H = 20 for 32-bit and 24 for 64-bit pointers; in a
\* returned directory the payload [offset, offset + payloadSize) lies in the file.
C9_EntryOffsets ==
    /\ Len(file_block_heads) <= Len(Listed)
    /\ \A i \in 1..Len(file_block_heads) :
           file_block_heads[i][2] = PayloadOffset(Listed[i])
    /\ outcome = Returned =>
           /\ result[1].blocks = file_block_heads
           /\ \A i \in 1..Len(file_block_heads) :
                  /\ file_block_heads[i][1].size >= 0
                  /\ file_block_heads[i][2] + file_block_heads[i][1].size <= Len(stream)

C9_Witness ==
    /\ outcome = Returned
    /\ gen.ptr = "I"
    /\ Len(result[1].blocks) = 2
    /\ gen.blocks[1].head.code = DNA1
    /\ result[1].blocks[2][2] > result[1].blocks[1][2] + 20

\* every pass of the loop moves the handle on by at least one header record
Progress ==
    /\ \A i \in 1..(Len(visited) - 1) :
           visited[i + 1].at >= visited[i].at + HeaderRecordSize
    /\ (pc = "loop" /\ visited # <<>>) => pos >= Last(visited).at + HeaderRecordSize
    /\ Len(visited) * HeaderRecordSize <= Len(stream)

\* C10: the scan ends on every file: each pass of the loop moves the handle on
\* by at least one header record, no block is read twice, and the construction
\* reaches its end (by ENDB, by the end of the file or by an exception).
C10_ScanTerminates == []Progress /\ <>(pc = "done")

C10_Witness ==
    /\ pc = "done"
    /\ Len(visited) = MaxBlocks
    /\ outcome = Returned

====
